---- MODULE Spec2Model ----
(***************************************************************************)
(* Propositional logic: the expression model of lp/syntax.py and the four  *)
(* semantic operations of operations.py.                                   *)
(*                                                                         *)
(* A string is a sequence of one-character strings: "p->q" is              *)
(* <<"p", "-", ">", "q">>.  An expression is a record whose cls field      *)
(* names its class; a PropositionalSymbol carries value, a UnaryOperator   *)
(* arg1 and a BinaryOperator arg1 and arg2, as the classes' attributes.    *)
(***************************************************************************)
EXTENDS Integers, Sequences, FiniteSets, TLC

\* args: the arguments the operations are called with, by parameter name.
\* ret: what the calls made so far returned, by call.
VARIABLES args, ret

vars == <<args, ret>>

(***************************************************************************)
(* Bounds of the inputs.                                                   *)
(***************************************************************************)
\* Nodes of the expressions given to the one-formula operations.
MaxNodes == 5
\* Nodes of the implication/negation chains given to the operations that
\* take several formulas.
MaxChainNodes == 5
\* Nodes of the formulas of a formula set, and formulas in a set.
MaxSetNodes == 3
MaxSetLen == 2
\* Length of the list of row values given to check_status.
MaxValues == 4

(***************************************************************************)
(* lp/syntax.py: the classes.                                              *)
(***************************************************************************)
BinaryOperator == {"Conjunction", "Disjunction", "Implication", "BiImplication"}

UnaryOperator == {"Negation"}

Operator == UnaryOperator \cup BinaryOperator

SYMBOL(cls) ==
    CASE cls = "Negation" -> <<"-">>
      [] cls = "Conjunction" -> <<"&">>
      [] cls = "Disjunction" -> <<"|">>
      [] cls = "Implication" -> <<"-", ">">>
      [] cls = "BiImplication" -> <<"<", "-", ">">>

precendence(cls) ==
    CASE cls = "Negation" -> 6
      [] cls = "Conjunction" -> 5
      [] cls = "Disjunction" -> 4
      [] cls = "Implication" -> 3
      [] cls = "BiImplication" -> 2

\* Operator.Associativity: LEFT = 1, RIGHT = 0.
associativity(cls) == IF cls = "Negation" THEN 0 ELSE 1

PropositionalSymbol(value) == [cls |-> "PropositionalSymbol", value |-> value]

\* An operator object after set_arg / set_args.
set_arg(cls, arg) == [cls |-> cls, arg1 |-> arg]

set_args(cls, arg1, arg2) == [cls |-> cls, arg1 |-> arg1, arg2 |-> arg2]

\* self.is_a(cls) for the classes the code asks about.
is_a(self, cls) ==
    CASE cls = "PropositionalSymbol" -> self.cls = "PropositionalSymbol"
      [] cls = "Operator" -> self.cls \in Operator
      [] cls = "UnaryOperator" -> self.cls \in UnaryOperator
      [] cls = "BinaryOperator" -> self.cls \in BinaryOperator
      [] OTHER -> self.cls = cls

(***************************************************************************)
(* subformulas()                                                           *)
(***************************************************************************)
\* The list without the elements that occurred earlier in it.
RECURSIVE Distinct(_)
Distinct(list) ==
    IF list = <<>> THEN <<>>
    ELSE LET front == Distinct(SubSeq(list, 1, Len(list) - 1))
             last == list[Len(list)]
         IN  IF \E i \in 1..Len(front) : front[i] = last
             THEN front
             ELSE Append(front, last)

\* Mutant of subformulas: a subformula is listed once.
RECURSIVE subformulas_unique(_)
subformulas_unique(self) ==
    IF is_a(self, "PropositionalSymbol") THEN <<self>>
    ELSE IF is_a(self, "UnaryOperator")
         THEN Distinct(<<self>> \o subformulas_unique(self.arg1))
         ELSE Distinct(<<self>> \o subformulas_unique(self.arg1)
                           \o subformulas_unique(self.arg2))

RECURSIVE subformulas(_)
subformulas(self) ==
    IF is_a(self, "PropositionalSymbol") THEN <<self>>
    ELSE IF is_a(self, "UnaryOperator")
         THEN <<self>> \o subformulas(self.arg1)
         ELSE <<self>> \o subformulas(self.arg1) \o subformulas(self.arg2)

(***************************************************************************)
(* str_representation()                                                    *)
(***************************************************************************)
\* Mutant of BinaryBare: < for <=.
BinaryBareStrict(self, arg) ==
    \/ is_a(arg, "PropositionalSymbol")
    \/ /\ is_a(arg, "Operator")
       /\ precendence(self.cls) < precendence(arg.cls)

\* The test of BinaryOperator.str_representation for writing an argument
\* without parentheses.
BinaryBare(self, arg) ==
    \/ is_a(arg, "PropositionalSymbol")
    \/ /\ is_a(arg, "Operator")
       /\ precendence(self.cls) <= precendence(arg.cls)

\* The test of UnaryOperator.str_representation.
UnaryBare(self, arg) == is_a(arg, "PropositionalSymbol")

RECURSIVE str_representation(_)
str_representation(self) ==
    IF is_a(self, "PropositionalSymbol") THEN self.value
    ELSE IF is_a(self, "UnaryOperator")
         THEN IF UnaryBare(self, self.arg1)
              THEN SYMBOL(self.cls) \o str_representation(self.arg1)
              ELSE SYMBOL(self.cls) \o <<"(">> \o str_representation(self.arg1) \o <<")">>
         ELSE LET arg1_repr ==
                      IF BinaryBare(self, self.arg1)
                      THEN str_representation(self.arg1)
                      ELSE <<"(">> \o str_representation(self.arg1) \o <<")">>
                  arg2_repr ==
                      IF BinaryBare(self, self.arg2)
                      THEN str_representation(self.arg2)
                      ELSE <<"(">> \o str_representation(self.arg2) \o <<")">>
              IN  arg1_repr \o SYMBOL(self.cls) \o arg2_repr

(***************************************************************************)
(* Interpreter.parse_expression (lp/interpreter.py): from the surface      *)
(* grammar and the precedence and associativity of the operator classes.   *)
(***************************************************************************)
LowercaseLetters == {"p", "q", "r"}

Digits == {"0", "1", "2"}

\* One past the last digit of the index that starts at position i.
RECURSIVE IndexEnd(_, _)
IndexEnd(text, i) ==
    IF i <= Len(text) /\ text[i] \in Digits THEN IndexEnd(text, i + 1) ELSE i

\* The symbols of a formula string; a character that opens no symbol gives
\* the symbol Invalid, which no rule of the grammar accepts.
RECURSIVE Tokens(_, _)
Tokens(text, i) ==
    IF i > Len(text) THEN <<>>
    ELSE LET c == text[i]
             starts(word) ==
                 /\ i + Len(word) - 1 <= Len(text)
                 /\ SubSeq(text, i, i + Len(word) - 1) = word
         IN  CASE c \in LowercaseLetters ->
                      <<PropositionalSymbol(SubSeq(text, i, IndexEnd(text, i + 1) - 1))>>
                          \o Tokens(text, IndexEnd(text, i + 1))
               [] c = "(" -> <<[cls |-> "OpeningParenthesis"]>> \o Tokens(text, i + 1)
               [] c = ")" -> <<[cls |-> "ClosingParenthesis"]>> \o Tokens(text, i + 1)
               [] c = "&" -> <<[cls |-> "Conjunction"]>> \o Tokens(text, i + 1)
               [] c = "|" -> <<[cls |-> "Disjunction"]>> \o Tokens(text, i + 1)
               [] c = "-" /\ starts(SYMBOL("Implication")) ->
                      <<[cls |-> "Implication"]>> \o Tokens(text, i + 2)
               [] c = "-" /\ ~starts(SYMBOL("Implication")) ->
                      <<[cls |-> "Negation"]>> \o Tokens(text, i + 1)
               [] c = "<" /\ starts(SYMBOL("BiImplication")) ->
                      <<[cls |-> "BiImplication"]>> \o Tokens(text, i + 3)
               [] OTHER -> <<[cls |-> "Invalid"]>>

SyntaxError == [cls |-> "SyntaxError"]

LowestPrecedence == precendence("BiImplication")

HighestPrecedence == precendence("Negation")

\* ParseTier(p, toks) reads one expression whose operators all bind at
\* least as tightly as precedence p and returns it with the symbols left;
\* ParseTail goes on reading operators of precedence p after the operand
\* `left`.  The right operand of a left-associative operator is read one tier
\* up, so operators of one tier group to the left.
RECURSIVE ParseTier(_, _)
RECURSIVE ParseTail(_, _, _)
RECURSIVE ParseAtom(_)
ParseAtom(toks) ==
    IF toks = <<>> THEN [ok |-> FALSE]
    ELSE CASE Head(toks).cls = "PropositionalSymbol" ->
                  [ok |-> TRUE, tree |-> Head(toks), rest |-> Tail(toks)]
           [] Head(toks).cls = "Negation" ->
                  LET arg == ParseAtom(Tail(toks))
                  IN  IF arg.ok
                      THEN [ok |-> TRUE, tree |-> set_arg("Negation", arg.tree),
                            rest |-> arg.rest]
                      ELSE [ok |-> FALSE]
           [] Head(toks).cls = "OpeningParenthesis" ->
                  LET inner == ParseTier(LowestPrecedence, Tail(toks))
                  IN  IF /\ inner.ok
                         /\ inner.rest # <<>>
                         /\ Head(inner.rest).cls = "ClosingParenthesis"
                      THEN [ok |-> TRUE, tree |-> inner.tree, rest |-> Tail(inner.rest)]
                      ELSE [ok |-> FALSE]
           [] OTHER -> [ok |-> FALSE]

ParseTail(p, left, toks) ==
    IF /\ toks # <<>>
       /\ Head(toks).cls \in BinaryOperator
       /\ precendence(Head(toks).cls) = p
    THEN LET cls == Head(toks).cls
             right == ParseTier(p + associativity(cls), Tail(toks))
         IN  IF right.ok
             THEN ParseTail(p, set_args(cls, left, right.tree), right.rest)
             ELSE [ok |-> FALSE]
    ELSE [ok |-> TRUE, tree |-> left, rest |-> toks]

ParseTier(p, toks) ==
    IF p >= HighestPrecedence THEN ParseAtom(toks)
    ELSE LET left == ParseTier(p + 1, toks)
         IN  IF left.ok THEN ParseTail(p, left.tree, left.rest) ELSE [ok |-> FALSE]

parse_expression(text) ==
    LET parsed == ParseTier(LowestPrecedence, Tokens(text, 1))
    IN  IF parsed.ok /\ parsed.rest = <<>> THEN parsed.tree ELSE SyntaxError

(***************************************************************************)
(* TruthTable and SetTruthTable (lp/interpreter.py): from the truth-table  *)
(* engine of the specification.                                            *)
(***************************************************************************)
RECURSIVE Pow2(_)
Pow2(n) == IF n = 0 THEN 1 ELSE 2 * Pow2(n - 1)

RECURSIVE Flatten(_)
Flatten(lists) == IF lists = <<>> THEN <<>> ELSE Head(lists) \o Flatten(Tail(lists))

\* The names of the propositional symbols of the expressions, each once, in
\* the order of their first occurrence in the subformulas.
variables_of(expressions) ==
    LET all == Flatten([i \in 1..Len(expressions) |-> subformulas(expressions[i])])
        symbols == SelectSeq(all, LAMBDA f : is_a(f, "PropositionalSymbol"))
    IN  Distinct([i \in 1..Len(symbols) |-> symbols[i].value])

\* Valuation `index` (from 0) of the 2^n valuations: the first variable is the
\* most significant bit and true comes first.
valuation_at(variables, index) ==
    LET n == Len(variables)
    IN  [name \in {variables[k] : k \in 1..n} |->
            LET k == CHOOSE j \in 1..n : variables[j] = name
            IN  (index \div Pow2(n - k)) % 2 = 0]

RECURSIVE evaluate(_, _)
evaluate(expression, valuation) ==
    CASE expression.cls = "PropositionalSymbol" -> valuation[expression.value]
      [] expression.cls = "Negation" -> ~evaluate(expression.arg1, valuation)
      [] expression.cls = "Conjunction" ->
             evaluate(expression.arg1, valuation) /\ evaluate(expression.arg2, valuation)
      [] expression.cls = "Disjunction" ->
             evaluate(expression.arg1, valuation) \/ evaluate(expression.arg2, valuation)
      [] expression.cls = "Implication" ->
             ~evaluate(expression.arg1, valuation) \/ evaluate(expression.arg2, valuation)
      [] expression.cls = "BiImplication" ->
             /\ ~evaluate(expression.arg1, valuation) \/ evaluate(expression.arg2, valuation)
             /\ ~evaluate(expression.arg2, valuation) \/ evaluate(expression.arg1, valuation)

\* The values of the expressions, in input order, under the valuation.
RECURSIVE evaluate_all(_, _)
evaluate_all(expressions, valuation) ==
    IF expressions = <<>> THEN <<>>
    ELSE <<evaluate(Head(expressions), valuation)>>
             \o evaluate_all(Tail(expressions), valuation)

\* The rows from row `index` on: each the valuation and the values of the
\* expressions under it.
RECURSIVE build_rows(_, _, _)
build_rows(variables, expressions, index) ==
    IF index >= Pow2(Len(variables)) THEN <<>>
    ELSE LET valuation == valuation_at(variables, index)
         IN  <<<<valuation, evaluate_all(expressions, valuation)>>>>
                 \o build_rows(variables, expressions, index + 1)

\* The table of the expressions: their variables and the ordered sequence
\* of the 2^n rows.
build_table(expressions) ==
    LET variables == variables_of(expressions)
    IN  [formulas |-> expressions,
         variables |-> variables,
         rows |-> build_rows(variables, expressions, 0)]

\* TruthTable(formula).
TruthTable(formula) == build_table(<<parse_expression(formula)>>)

\* TruthTable.get_formula_valuations(): line -> (valuation, value).
get_formula_valuations(truth_table) ==
    [line \in DOMAIN truth_table.rows |->
        <<truth_table.rows[line][1], truth_table.rows[line][2][1]>>]

\* The expressions of the formula strings of a list.
RECURSIVE parse_all(_)
parse_all(formulas) ==
    IF formulas = <<>> THEN <<>>
    ELSE <<parse_expression(Head(formulas))>> \o parse_all(Tail(formulas))

\* SetTruthTable(formulas).
SetTruthTable(formulas) == build_table(parse_all(formulas))

\* SetTruthTable.get_formula_models(key): the rows (index -> valuation) at
\* which the formula of the table whose string representation is `key` is
\* true; the first such formula when several have it.
get_formula_models(truth_table, key) ==
    LET column == CHOOSE i \in 1..Len(truth_table.formulas) :
                      /\ str_representation(truth_table.formulas[i]) = key
                      /\ \A j \in 1..(i - 1) :
                             str_representation(truth_table.formulas[j]) # key
        indexes == {r \in DOMAIN truth_table.rows : truth_table.rows[r][2][column]}
    IN  [r \in indexes |-> truth_table.rows[r][1]]

\* The dictionary (string representation -> expression) of a list of
\* expressions; a later entry replaces an earlier one under the same key.
formulas_dict(expressions) ==
    [key \in {str_representation(expressions[i]) : i \in 1..Len(expressions)} |->
        LET last == CHOOSE i \in 1..Len(expressions) :
                        /\ str_representation(expressions[i]) = key
                        /\ \A j \in (i + 1)..Len(expressions) :
                               str_representation(expressions[j]) # key
        IN  expressions[last]]

\* SetTruthTable.get_formulas_set_models(): the rows at which every formula
\* of the table is true.
get_table_set_models(truth_table) ==
    LET indexes == {r \in DOMAIN truth_table.rows :
                       \A i \in 1..Len(truth_table.formulas) : truth_table.rows[r][2][i]}
    IN  [r \in indexes |-> truth_table.rows[r][1]]

\* SetTruthTable.get_formulas_set_models(formulas): the rows at which every
\* expression of the dictionary `formulas` is true.
get_formulas_set_models(truth_table, formulas) ==
    LET indexes == {r \in DOMAIN truth_table.rows :
                       \A key \in DOMAIN formulas :
                           evaluate(formulas[key], truth_table.rows[r][1])}
    IN  [r \in indexes |-> truth_table.rows[r][1]]

(***************************************************************************)
(* operations.py                                                           *)
(***************************************************************************)
\* Mutant of check_status: a tautology is a list without FALSE.
check_status_all(formula_values) ==
    LET has(value) == \E i \in 1..Len(formula_values) : formula_values[i] = value
    IN  IF ~has(FALSE) THEN "TAUTOLOGIA"
        ELSE IF ~has(TRUE) THEN "CONTRADICAO"
        ELSE "CONTINGENCIA"

\* SemanticStatus.check_status
check_status(formula_values) ==
    LET has(value) == \E i \in 1..Len(formula_values) : formula_values[i] = value
        tautology == has(TRUE) /\ ~has(FALSE)
        contradiction == has(FALSE) /\ ~has(TRUE)
    IN  IF tautology THEN "TAUTOLOGIA"
        ELSE IF contradiction THEN "CONTRADICAO"
        ELSE "CONTINGENCIA"

\* SemanticStatus.perform: the status and the table of the returned string.
SemanticStatus_perform(formula) ==
    LET truth_table == TruthTable(formula)
        valuations == get_formula_valuations(truth_table)
        formula_values == [line \in 1..Len(valuations) |-> valuations[line][2]]
    IN  <<check_status(formula_values), truth_table>>

\* SemanticEquivalence.check_equivalence
check_equivalence(formula1, formula2) ==
    LET truth_table == SetTruthTable(<<formula1, formula2>>)
        f1 == parse_expression(formula1)
        f2 == parse_expression(formula2)
        models1 == get_formula_models(truth_table, str_representation(f1))
        models2 == get_formula_models(truth_table, str_representation(f2))
        first == \A valuation_index \in DOMAIN models1 : valuation_index \in DOMAIN models2
        equivalent ==
            IF first
            THEN \A valuation_index \in DOMAIN models2 : valuation_index \in DOMAIN models1
            ELSE FALSE
    IN  <<equivalent, truth_table>>

\* SemanticEquivalence.perform
SemanticEquivalence_perform(formula1, formula2) ==
    LET checked == check_equivalence(formula1, formula2)
    IN  <<IF checked[1] THEN "SIM" ELSE "NAO", checked[2]>>

\* Mutant of Consistency.perform: the answers exchanged.
Consistency_perform_swapped(formulas) ==
    LET truth_table == SetTruthTable(formulas)
        formulas_models == get_table_set_models(truth_table)
    IN  <<IF DOMAIN formulas_models # {} THEN "NAO" ELSE "SIM", truth_table>>

\* Consistency.perform
Consistency_perform(formulas) ==
    LET truth_table == SetTruthTable(formulas)
        formulas_models == get_table_set_models(truth_table)
    IN  <<IF DOMAIN formulas_models # {} THEN "SIM" ELSE "NAO", truth_table>>

\* Mutant of is_logic_consequence_of_empty_set: only the first row is read.
is_logic_consequence_first_row(formula) ==
    LET truth_table == TruthTable(formula)
        valuations == get_formula_valuations(truth_table)
    IN  <<IF valuations[1][2] THEN "SIM" ELSE "NAO", truth_table>>

\* LogicConsequence.is_logic_consequence_of_empty_set
is_logic_consequence_of_empty_set(formula) ==
    LET truth_table == TruthTable(formula)
        valuations == get_formula_valuations(truth_table)
        logic_consequence ==
            ~\E valuation_index \in DOMAIN valuations : valuations[valuation_index][2] = FALSE
    IN  <<IF logic_consequence THEN "SIM" ELSE "NAO", truth_table>>

\* LogicConsequence.perform
LogicConsequence_perform(formulas_set, formula) ==
    IF (\E i \in 1..Len(formulas_set) : formulas_set[i] = <<>>) /\ Len(formulas_set) = 1
    THEN is_logic_consequence_of_empty_set(formula)
    ELSE LET truth_table == SetTruthTable(Append(formulas_set, formula))
             parsed == parse_expression(formula)
             formulas ==
                 formulas_dict(parse_all(formulas_set))
             set_models == get_formulas_set_models(truth_table, formulas)
             formula_models == get_formula_models(truth_table, str_representation(parsed))
             logic_consequence ==
                 \A valuation_index \in DOMAIN set_models :
                     valuation_index \in DOMAIN formula_models
         IN  <<IF logic_consequence THEN "SIM" ELSE "NAO", truth_table>>

(***************************************************************************)
(* The inputs: expressions by number of nodes, and their formula strings.  *)
(***************************************************************************)
Names == {<<"p">>, <<"q">>}

ChainNames == {<<"p">>}

ChainClasses == {"Negation", "Implication"}

RECURSIVE TreesOfSize(_, _, _)
TreesOfSize(n, names, classes) ==
    IF n = 1 THEN {PropositionalSymbol(name) : name \in names}
    ELSE {set_arg(cls, arg) :
              cls \in classes \cap UnaryOperator, arg \in TreesOfSize(n - 1, names, classes)}
         \cup UNION {{set_args(cls, arg1, arg2) :
                          cls \in classes \cap BinaryOperator,
                          arg1 \in TreesOfSize(k, names, classes),
                          arg2 \in TreesOfSize(n - 1 - k, names, classes)} :
                     k \in 1..(n - 2)}

TreesUpTo(n, names, classes) == UNION {TreesOfSize(k, names, classes) : k \in 1..n}

\* A formula string of the expression with every operator argument in
\* parentheses, as a user may write it.
RECURSIVE FullText(_)
FullText(tree) ==
    LET inner(arg) ==
            IF arg.cls = "PropositionalSymbol" THEN FullText(arg)
            ELSE <<"(">> \o FullText(arg) \o <<")">>
    IN  IF tree.cls = "PropositionalSymbol" THEN tree.value
        ELSE IF tree.cls \in UnaryOperator THEN SYMBOL(tree.cls) \o inner(tree.arg1)
        ELSE inner(tree.arg1) \o SYMBOL(tree.cls) \o inner(tree.arg2)

Expressions == TreesUpTo(MaxNodes, Names, Operator)

\* Formula strings: fully parenthesized ones and the ones the program writes.
Formulas == {FullText(tree) : tree \in Expressions}
                \cup {str_representation(tree) : tree \in Expressions}

(***************************************************************************)
(* The expression model: str_representation and subformulas of one         *)
(* expression.                                                             *)
(***************************************************************************)
Called(call) == call \in DOMAIN ret

Return(call, value) == ret' = ret @@ (call :> value)

InitSyntax ==
    /\ args \in {[self |-> tree] : tree \in Expressions}
    /\ ret = <<>>

StrRepresentation ==
    /\ ~Called("str_representation")
    /\ Return("str_representation", str_representation(args.self))
    /\ UNCHANGED args

Subformulas ==
    /\ ~Called("subformulas")
    /\ Return("subformulas", subformulas(args.self))
    /\ UNCHANGED args

NextSyntax == StrRepresentation \/ Subformulas

SpecSyntax == InitSyntax /\ [][NextSyntax]_vars

\* The argument `arg` as an operator writes it: as it is, or in parentheses.
Written(arg, bare) ==
    IF bare THEN str_representation(arg)
    ELSE <<"(">> \o str_representation(arg) \o <<")">>

\* The rule of the specification: bare when the argument is a propositional
\* symbol or an operator whose precedence is at least the parent's.
RuleBare(self, arg) ==
    \/ arg.cls = "PropositionalSymbol"
    \/ arg.cls \in Operator /\ precendence(arg.cls) >= precendence(self.cls)

\* C8 as stated: every operator node, Negation included, writes its
\* arguments by the precedence rule.
C8_RuleForEveryOperator ==
    (Called("str_representation") /\ args.self.cls \in Operator) =>
        LET self == args.self
        IN  ret["str_representation"] =
                IF self.cls \in UnaryOperator
                THEN SYMBOL(self.cls) \o Written(self.arg1, RuleBare(self, self.arg1))
                ELSE Written(self.arg1, RuleBare(self, self.arg1))
                         \o SYMBOL(self.cls)
                         \o Written(self.arg2, RuleBare(self, self.arg2))

\* C8 amended: a binary operator writes an argument bare when it is a
\* propositional symbol or an operator whose precedence is at least its own
\* and in parentheses otherwise; Negation writes its argument bare only when
\* it is a propositional symbol and in parentheses whenever it is an operator.
C8_RuleForBinaryOperators ==
    (Called("str_representation") /\ args.self.cls \in Operator) =>
        LET self == args.self
        IN  ret["str_representation"] =
                IF self.cls \in UnaryOperator
                THEN SYMBOL(self.cls)
                         \o Written(self.arg1, self.arg1.cls = "PropositionalSymbol")
                ELSE Written(self.arg1, RuleBare(self, self.arg1))
                         \o SYMBOL(self.cls)
                         \o Written(self.arg2, RuleBare(self, self.arg2))

\* A Negation of a Negation has been rendered, its argument in parentheses.
C8_Witness ==
    /\ Called("str_representation")
    /\ args.self.cls = "Negation"
    /\ args.self.arg1.cls = "Negation"
    /\ SubSeq(ret["str_representation"], 1, 2) = <<"-", "(">>

\* The nodes of an expression: the symbols of its formula string that are
\* no parentheses.
Nodes(tree) ==
    Len(SelectSeq(Tokens(FullText(tree), 1),
                  LAMBDA symbol :
                      symbol.cls \notin {"OpeningParenthesis", "ClosingParenthesis"}))

\* C9: subformulas() lists the node first, then the subformulas of the first
\* argument, then those of the second; nothing is removed, so the list is as
\* long as the expression has nodes, and a propositional symbol gives only
\* itself.
C9_SubformulasPreOrder ==
    Called("subformulas") =>
        LET self == args.self
            subs == ret["subformulas"]
        IN  /\ subs[1] = self
            /\ Len(subs) = Nodes(self)
            /\ self.cls = "PropositionalSymbol" => subs = <<self>>
            /\ self.cls \in UnaryOperator => Tail(subs) = subformulas(self.arg1)
            /\ self.cls \in BinaryOperator =>
                   Tail(subs) = subformulas(self.arg1) \o subformulas(self.arg2)

\* A binary operator whose arguments share a subformula.
C9_Witness ==
    /\ Called("subformulas")
    /\ args.self.cls \in BinaryOperator
    /\ Len(ret["subformulas"]) = 5
    /\ \E i, j \in 1..5 : i < j /\ ret["subformulas"][i] = ret["subformulas"][j]

(***************************************************************************)
(* Round trip: a formula string is parsed, the expression is rendered and  *)
(* the rendered string is parsed again.                                    *)
(***************************************************************************)
InitRoundTrip ==
    /\ args \in {[text |-> formula] : formula \in Formulas}
    /\ ret = <<>>

ParseExpression ==
    /\ ~Called("parsed")
    /\ Return("parsed", parse_expression(args.text))
    /\ UNCHANGED args

RenderParsed ==
    /\ Called("parsed") /\ ~Called("rendered")
    /\ ret["parsed"].cls # "SyntaxError"
    /\ Return("rendered", str_representation(ret["parsed"]))
    /\ UNCHANGED args

ParseRendered ==
    /\ Called("rendered") /\ ~Called("reparsed")
    /\ Return("reparsed", parse_expression(ret["rendered"]))
    /\ UNCHANGED args

NextRoundTrip == ParseExpression \/ RenderParsed \/ ParseRendered

SpecRoundTrip == InitRoundTrip /\ [][NextRoundTrip]_vars

\* C3: parsing the rendered string of a parsed formula gives the expression
\* the formula parsed to.
C3_RoundTrip == Called("reparsed") => ret["reparsed"] = ret["parsed"]

(***************************************************************************)
(* Two expressions and their string representations, the keys under which  *)
(* the operations look formulas up in a table.                             *)
(***************************************************************************)
PairExpressions == TreesUpTo(MaxChainNodes, Names, ChainClasses)

PairFormulas == {FullText(tree) : tree \in PairExpressions}

InitKeys ==
    /\ args \in {[first |-> a, second |-> b] : a \in PairExpressions, b \in PairExpressions}
    /\ ret = <<>>

StrRepresentationFirst ==
    /\ ~Called("first")
    /\ Return("first", str_representation(args.first))
    /\ UNCHANGED args

StrRepresentationSecond ==
    /\ ~Called("second")
    /\ Return("second", str_representation(args.second))
    /\ UNCHANGED args

NextKeys == StrRepresentationFirst \/ StrRepresentationSecond

SpecKeys == InitKeys /\ [][NextKeys]_vars

\* C10: two different expressions never have the same string representation.
C10_Injective ==
    (Called("first") /\ Called("second") /\ args.first # args.second) =>
        ret["first"] # ret["second"]

(***************************************************************************)
(* SemanticEquivalence on two formulas.                                    *)
(***************************************************************************)
InitEquivalence ==
    /\ args \in {[formula1 |-> f1, formula2 |-> f2] :
                     f1 \in PairFormulas, f2 \in PairFormulas}
    /\ ret = <<>>

CheckEquivalence ==
    /\ ~Called("check_equivalence")
    /\ Return("check_equivalence", check_equivalence(args.formula1, args.formula2))
    /\ UNCHANGED args

SemanticEquivalencePerform ==
    /\ ~Called("perform")
    /\ Return("perform", SemanticEquivalence_perform(args.formula1, args.formula2))
    /\ UNCHANGED args

NextEquivalence == CheckEquivalence \/ SemanticEquivalencePerform

SpecEquivalence == InitEquivalence /\ [][NextEquivalence]_vars

\* C1: check_equivalence reports equivalent exactly when, in the shared
\* table it returns, the rows at which formula1 is true are the rows at which
\* formula2 is true.
C1_EquivalentIffSameModels ==
    Called("check_equivalence") =>
        LET equivalent == ret["check_equivalence"][1]
            rows == ret["check_equivalence"][2].rows
        IN  equivalent <=> ({r \in DOMAIN rows : rows[r][2][1]}
                                = {r \in DOMAIN rows : rows[r][2][2]})

(***************************************************************************)
(* SemanticEquivalence as a relation: check_equivalence on the pairs of    *)
(* three formulas.                                                         *)
(***************************************************************************)
ChainExpressions == TreesUpTo(MaxChainNodes, ChainNames, ChainClasses)

ChainFormulas == {FullText(tree) : tree \in ChainExpressions}

\* The calls, in the order they are made: <<i, j>> is formula i with formula j.
Schedule == <<<<1, 1>>, <<1, 2>>, <<2, 1>>, <<2, 3>>, <<1, 3>>>>

InitRelation ==
    /\ args \in {<<f1, f2, f3>> :
                     f1 \in ChainFormulas, f2 \in ChainFormulas, f3 \in ChainFormulas}
    /\ ret = <<>>

CheckEquivalencePair ==
    /\ Len(ret) < Len(Schedule)
    /\ LET pair == Schedule[Len(ret) + 1]
       IN  ret' = Append(ret, check_equivalence(args[pair[1]], args[pair[2]])[1])
    /\ UNCHANGED args

NextRelation == CheckEquivalencePair

SpecRelation == InitRelation /\ [][NextRelation]_vars

\* The verdict of the call on formula i with formula j, once it is made.
Made(i, j) == \E k \in 1..Len(ret) : Schedule[k] = <<i, j>>

Verdict(i, j) == ret[CHOOSE k \in 1..Len(Schedule) : Schedule[k] = <<i, j>>]

\* C7: the verdict of check_equivalence is reflexive, symmetric and
\* transitive.
C7_EquivalenceRelation ==
    /\ Made(1, 1) => Verdict(1, 1)
    /\ (Made(1, 2) /\ Made(2, 1)) => (Verdict(1, 2) <=> Verdict(2, 1))
    /\ (Made(1, 2) /\ Made(2, 3) /\ Made(1, 3)) =>
           ((Verdict(1, 2) /\ Verdict(2, 3)) => Verdict(1, 3))

(***************************************************************************)
(* LogicConsequence on a set of premises and a formula.                    *)
(***************************************************************************)
RECURSIVE ListsUpTo(_, _)
ListsUpTo(n, elements) ==
    IF n = 0 THEN {<<>>}
    ELSE ListsUpTo(n - 1, elements)
             \cup {Append(list, e) : list \in ListsUpTo(n - 1, elements), e \in elements}

MaxPremises == 2

InitConsequence ==
    /\ args \in {[formulas_set |-> premises, formula |-> formula] :
                     premises \in ListsUpTo(MaxPremises, ChainFormulas) \ {<<>>},
                     formula \in ChainFormulas}
    /\ ret = <<>>

LogicConsequencePerform ==
    /\ ~Called("perform")
    /\ Return("perform", LogicConsequence_perform(args.formulas_set, args.formula))
    /\ UNCHANGED args

NextConsequence == LogicConsequencePerform

SpecConsequence == InitConsequence /\ [][NextConsequence]_vars

\* The assignments of truth values to the variables of the expressions.
Valuations(expressions) ==
    LET variables == variables_of(expressions)
    IN  [{variables[k] : k \in 1..Len(variables)} -> BOOLEAN]

\* C2: for a non-empty premise list, perform answers SIM exactly when every
\* valuation of the variables of the premises and the formula that makes all
\* premises true makes the formula true.
C2_ConsequenceIffModelsIncluded ==
    Called("perform") =>
        LET premises == parse_all(args.formulas_set)
            formula == parse_expression(args.formula)
        IN  (ret["perform"][1] = "SIM") <=>
                \A valuation \in Valuations(Append(premises, formula)) :
                    (\A i \in 1..Len(premises) : evaluate(premises[i], valuation))
                        => evaluate(formula, valuation)

(***************************************************************************)
(* LogicConsequence of the empty set, and SemanticStatus, on one formula.  *)
(***************************************************************************)
\* The premise list of the empty set: one element, the empty string.
EmptySet == <<<<>>>>

InitEmptySet ==
    /\ args \in {[formulas_set |-> EmptySet, formula |-> formula] : formula \in Formulas}
    /\ ret = <<>>

ConsequenceOfEmptySet ==
    /\ ~Called("consequence")
    /\ Return("consequence", LogicConsequence_perform(args.formulas_set, args.formula))
    /\ UNCHANGED args

SemanticStatusPerform ==
    /\ ~Called("status")
    /\ Return("status", SemanticStatus_perform(args.formula))
    /\ UNCHANGED args

NextEmptySet == ConsequenceOfEmptySet \/ SemanticStatusPerform

SpecEmptySet == InitEmptySet /\ [][NextEmptySet]_vars

\* C6: with the empty set as premises, perform answers SIM exactly when
\* SemanticStatus classifies the formula as TAUTOLOGIA.
C6_EmptySetIffTautology ==
    (Called("consequence") /\ Called("status")) =>
        ((ret["consequence"][1] = "SIM") <=> (ret["status"][1] = "TAUTOLOGIA"))

\* Both answers are there for a tautology of two variables.
C6_Witness ==
    /\ Called("consequence") /\ Called("status")
    /\ ret["consequence"][1] = "SIM"
    /\ Len(ret["status"][2].rows) = 4

(***************************************************************************)
(* Consistency of a list of formulas.                                      *)
(***************************************************************************)
SetClasses == {"Negation", "Conjunction", "Implication"}

SetFormulas == {FullText(tree) : tree \in TreesUpTo(MaxSetNodes, Names, SetClasses)}

InitConsistency ==
    /\ args \in {[formulas |-> formulas] : formulas \in ListsUpTo(MaxSetLen, SetFormulas)}
    /\ ret = <<>>

ConsistencyPerform ==
    /\ ~Called("perform")
    /\ Return("perform", Consistency_perform(args.formulas))
    /\ UNCHANGED args

NextConsistency == ConsistencyPerform

SpecConsistency == InitConsistency /\ [][NextConsistency]_vars

\* C5: perform answers SIM exactly when some valuation of the variables of
\* all the formulas makes every formula true, and NAO otherwise.
C5_ConsistentIffCommonModel ==
    Called("perform") =>
        LET formulas == parse_all(args.formulas)
            satisfiable ==
                \E valuation \in Valuations(formulas) :
                    \A i \in 1..Len(formulas) : evaluate(formulas[i], valuation)
        IN  /\ ret["perform"][1] \in {"SIM", "NAO"}
            /\ (ret["perform"][1] = "SIM") <=> satisfiable

\* Two formulas, each satisfiable, with no common model: the answer is NAO.
C5_Witness ==
    /\ Called("perform")
    /\ Len(args.formulas) = 2
    /\ ret["perform"][1] = "NAO"
    /\ \A i \in 1..2 : Consistency_perform(<<args.formulas[i]>>)[1] = "SIM"

(***************************************************************************)
(* SemanticStatus: check_status on a list of row values, perform on a      *)
(* formula.                                                                *)
(***************************************************************************)
InitStatus ==
    /\ args \in {[formula_values |-> values] : values \in ListsUpTo(MaxValues, BOOLEAN)}
                    \cup {[formula |-> formula] : formula \in Formulas}
    /\ ret = <<>>

CheckStatus ==
    /\ "formula_values" \in DOMAIN args
    /\ ~Called("check_status")
    /\ Return("check_status", check_status(args.formula_values))
    /\ UNCHANGED args

StatusOfFormula ==
    /\ "formula" \in DOMAIN args
    /\ ~Called("perform")
    /\ Return("perform", SemanticStatus_perform(args.formula))
    /\ UNCHANGED args

NextStatus == CheckStatus \/ StatusOfFormula

SpecStatus == InitStatus /\ [][NextStatus]_vars

\* The status the claim gives a list of row values.
StatusOf(values) ==
    LET every(value) == \A i \in 1..Len(values) : values[i] = value
        none(value) == \A i \in 1..Len(values) : values[i] # value
    IN  IF values # <<>> /\ every(TRUE) /\ none(FALSE) THEN "TAUTOLOGIA"
        ELSE IF values # <<>> /\ every(FALSE) /\ none(TRUE) THEN "CONTRADICAO"
        ELSE "CONTINGENCIA"

\* C4: check_status returns TAUTOLOGIA for a list of row values all true,
\* CONTRADICAO for one all false and CONTINGENCIA for any other list, the
\* empty one included; perform gives a formula the status of its rows.
C4_StatusOfValues ==
    /\ Called("check_status") =>
           /\ ret["check_status"] \in {"TAUTOLOGIA", "CONTRADICAO", "CONTINGENCIA"}
           /\ ret["check_status"] = StatusOf(args.formula_values)
    /\ Called("perform") =>
           LET rows == ret["perform"][2].rows
           IN  ret["perform"][1] = StatusOf([r \in 1..Len(rows) |-> rows[r][2][1]])

\* check_status has answered for the empty list.
C4_Witness ==
    /\ Called("check_status")
    /\ args.formula_values = <<>>
    /\ ret["check_status"] = "CONTINGENCIA"

====
